---- MODULE Spec2Model ----
(***************************************************************************)
(* State-machine model of the kanban board of src/src/App.jsx: the React   *)
(* state of the App component, the localStorage blob, the clock that ids   *)
(* and timestamps are read from, and the drag gesture of the dnd-kit       *)
(* DndContext.  One action per event handler.                              *)
(***************************************************************************)
EXTENDS Integers, Sequences, FiniteSets, TLC

\* ---------------------------------------------------------------- bounds
\* Spec (every handler): tickets on the board, clock values.
MaxTickets == 1
MaxClock == 2
\* StoreSpec (the ticket store and its dialogs, no drag).
MaxStoreTickets == 2
MaxStoreClock == 2
\* DragSpec (the drag reconciler over boards built by Add Test).
MaxDragTickets == 3
MaxDragClock == 3
\* LoadSpec (page loads over blobs written outside the App).
MaxLoadTickets == 3
MaxLoadClock == 2
\* SearchSpec (the search bar over boards of Add Test and of the create
\* form): tickets on the board, tickets on the board for a create by the
\* form, clock values.
MaxSearchTickets == 11
MaxSearchCreated == 1
MaxSearchClock == 2
\* ShortcutSpec (the N shortcut next to the edit and detail dialogs).
MaxShortcutTickets == 2
MaxShortcutClock == 2
\* ArmSpec (the double click that enables a drag, next to the dialogs).
MaxArmTickets == 2
MaxArmClock == 2
\* FreshSpec (the search bar next to edits, deletes and drags).
MaxFreshTickets == 1
MaxFreshClock == 2
\* EditSpec (the edit dialog next to the drag reconciler).
MaxEditTickets == 2
MaxEditClock == 2
\* DeleteSpec (delete and clear over boards spread by drags).
MaxDeleteTickets == 3
MaxDeleteClock == 2

\* ------------------------------------------------------------- constants
ToDo == "To Do"
InProgress == "In Progress"
Done == "Done"

\* Object.keys(initialColumns), in insertion order.
ColOrder == <<ToDo, InProgress, Done>>
Cols == {ColOrder[i] : i \in 1..Len(ColOrder)}

\* A status <select> that also offers a status that is no column.
StatusOptionsWithBacklog == {"To Do", "In Progress", "Done", "Backlog"}

\* The options of the status <select> of the ticket form.
StatusOptions == {ToDo, InProgress, Done}

\* null / undefined of a ticket-valued state variable.
Null == [null |-> TRUE]
\* null of an id-valued state variable.
NoId == ""
\* event.over === null
NoOver == "<null>"
\* A droppable id that is neither a column name nor the id of a ticket.
StrayId == "stray"

\* Values a user types in the form; "" is the empty input.  A ticket is a
\* record of id, title, description, assignedTo, tentativeTime, priority,
\* status, createdAt and updatedAt; updatedAt 0 is a ticket without the key
\* (the tickets of Add Test).
FormTitles == {"", " ", "Fix bug"}
FormDescriptions == {""}
FormAssignees == {"", "Alice"}
FormPriorities == {"High"}
\* tentativeTime: parseInt(value) || "" ; 0 stands for the falsy "".
FormTimes == {-1, 0, 3}

VARIABLES
    columns,            \* useState(loadFromLocalStorage())
    rendered,           \* the columns of the last render of App
    isCreateModalOpen,
    isEditModalOpen,
    editingTicket,
    isDetailModalOpen,
    selectedTicket,
    draggedTicket,
    dragEnabledId,
    createStatus,
    searchQuery,
    storage,            \* localStorage["kanban-tickets"]
    now,                \* Date.now()
    activeId,           \* the active draggable of the DndContext
    last                \* the last event and how the handler resolved it

vars == <<columns, rendered, isCreateModalOpen, isEditModalOpen, editingTicket,
          isDetailModalOpen, selectedTicket, draggedTicket, dragEnabledId,
          createStatus, searchQuery, storage, now, activeId, last>>

ui == <<isCreateModalOpen, isEditModalOpen, editingTicket,
        isDetailModalOpen, selectedTicket, createStatus, searchQuery>>

\* ------------------------------------------------------------- helpers
initialColumns == [k \in Cols |-> <<>>]

\* Date.now().toString()
IdOfClock(n) == ToString(n)

\* Object.keys(columns) in order: the three initial keys first, then any
\* key added later.
KeysOf(cols) == DOMAIN cols

\* prev[k] || []
Get(cols, k) == IF k \in DOMAIN cols THEN cols[k] ELSE <<>>

\* Object.values(columns).flat(): the columns in key order, concatenated.
AllTickets(cols) ==
    Get(cols, ColOrder[1]) \o Get(cols, ColOrder[2]) \o Get(cols, ColOrder[3])

TotalTickets(cols) == Len(AllTickets(cols))

\* Array.prototype.findIndex on ticket ids, 1-based; 0 stands for -1.
FindIndex(items, id) ==
    IF \E i \in 1..Len(items) : items[i].id = id
    THEN CHOOSE i \in 1..Len(items) :
            /\ items[i].id = id
            /\ \A j \in 1..(i - 1) : items[j].id # id
    ELSE 0

\* items.filter((t) => t.id !== id)
FilterOut(items, id) == SelectSeq(items, LAMBDA t : t.id # id)

\* array.splice(at, 1) : the array without the element at 1-based index at.
RemoveAt(items, at) ==
    [i \in 1..(Len(items) - 1) |-> IF i < at THEN items[i] ELSE items[i + 1]]

\* array.splice(at, 1, x) : x written over the element at index at.
InsertAtReplacing(items, at, x) ==
    IF at > Len(items) THEN Append(items, x)
    ELSE [i \in 1..Len(items) |-> IF i = at THEN x ELSE items[i]]

\* array.splice(at, 0, x) : x inserted so that it gets 1-based index at;
\* an index beyond the end appends.
InsertAt(items, at, x) ==
    LET p == IF at > Len(items) + 1 THEN Len(items) + 1 ELSE at
    IN [i \in 1..(Len(items) + 1) |->
            IF i < p THEN items[i] ELSE IF i = p THEN x ELSE items[i - 1]]

\* arraySwap(array, from, to): the two elements exchanged.
arraySwap(items, from, to) ==
    [i \in 1..Len(items) |->
        IF i = from THEN items[to] ELSE IF i = to THEN items[from]
        ELSE items[i]]

\* arrayMove(array, from, to) of @dnd-kit/sortable, 1-based indices:
\* newArray.splice(to, 0, newArray.splice(from, 1)[0]).
arrayMove(items, from, to) ==
    InsertAt(RemoveAt(items, from), to, items[from])

\* localStorage.getItem returns null: no blob under the key.
NoBlob == <<>>
\* A blob that JSON.parse throws on.
CorruptBlob == <<"{">>

\* JSON.stringify of a ticket: the keys the object has; a ticket without
\* updatedAt (the 0 of the model) has no such key in the text.
JSONstringifyTicket(t) ==
    IF t.updatedAt = 0 THEN [k \in (DOMAIN t) \ {"updatedAt"} |-> t[k]]
    ELSE t

\* A parse that gives a ticket without updatedAt its createdAt for it.
JSONparseTicketStamping(j) ==
    IF "updatedAt" \in DOMAIN j THEN j
    ELSE [k \in (DOMAIN j) \cup {"updatedAt"} |->
            IF k = "updatedAt" THEN j.createdAt ELSE j[k]]

\* JSON.parse of a ticket: the keys of the text; a key that is not there
\* is undefined on the object (the 0 of the model).
JSONparseTicket(j) ==
    IF "updatedAt" \in DOMAIN j THEN j
    ELSE [k \in (DOMAIN j) \cup {"updatedAt"} |->
            IF k = "updatedAt" THEN 0 ELSE j[k]]

\* JSON.stringify(columns): the entries of the object in key order, each
\* value the array of the stringified tickets.
saveToLocalStorage(cols) ==
    [i \in 1..Len(ColOrder) |->
        [key |-> ColOrder[i],
         value |-> [n \in 1..Len(Get(cols, ColOrder[i])) |->
                      JSONstringifyTicket(Get(cols, ColOrder[i])[n])]]]

\* saved ? JSON.parse(saved) : initialColumns, for a blob that parses.
loadFromLocalStorage(saved) ==
    IF saved = NoBlob THEN [k \in Cols |-> <<>>]
    ELSE [k \in {saved[i].key : i \in 1..Len(saved)} |->
            LET e == CHOOSE i \in 1..Len(saved) : saved[i].key = k
            IN [n \in 1..Len(saved[e].value) |->
                  JSONparseTicket(saved[e].value[n])]]

\* The columns whose SortableContext holds a sortable with this id
\* (data.current.sortable.containerId of that sortable).
ContainerIds(cols, id) ==
    {k \in DOMAIN cols : \E i \in 1..Len(cols[k]) : cols[k][i].id = id}

\* The tickets rendered on the board, and their ids.
BoardTickets(cols) ==
    UNION {{cols[k][i] : i \in 1..Len(cols[k])} : k \in DOMAIN cols}

BoardIds(cols) == {t.id : t \in BoardTickets(cols)}

Event(op, id, over, src, dst, outcome) ==
    [op |-> op, id |-> id, over |-> over, src |-> src, dst |-> dst,
     outcome |-> outcome]

\* ------------------------------------------------------------- Init
\* A render that shows the board of the first render.
RenderInitial(cols) == initialColumns

\* A render that the handlers are not taken from: they keep the board of
\* the render they were made in.
RenderSkipped(cols) == rendered

\* The board that the handlers of the next event close over: App renders
\* again after every setColumns, before the next event is handled.
Render(cols) == cols

Init ==
    /\ columns = initialColumns
    /\ rendered = initialColumns
    /\ isCreateModalOpen = FALSE
    /\ isEditModalOpen = FALSE
    /\ editingTicket = Null
    /\ isDetailModalOpen = FALSE
    /\ selectedTicket = Null
    /\ draggedTicket = Null
    /\ dragEnabledId = NoId
    /\ createStatus = ToDo
    /\ searchQuery = ""
    /\ storage = saveToLocalStorage(initialColumns)
    /\ now = 1
    /\ activeId = NoId
    /\ last = Event("init", NoId, NoOver, "", "", "")

\* The clock advances between events (or does not).
Tick ==
    /\ now' = now + 1
    /\ UNCHANGED <<columns, rendered, ui, draggedTicket, dragEnabledId, storage,
                   activeId, last>>

\* ------------------------------------------------------------- tickets
\* { ...prev, [k]: v }
SetKey(cols, k, v) ==
    [x \in (DOMAIN cols) \cup {k} |-> IF x = k THEN v ELSE cols[x]]

\* String.prototype.trim on the form inputs of the model.
Trim(s) == IF s = " " THEN "" ELSE s

\* The form contents a submit is tried with: every status with all fields
\* filled in, and every way of leaving one field empty.
FormData ==
    {f \in [title : FormTitles, description : FormDescriptions,
            assignedTo : FormAssignees, tentativeTime : FormTimes,
            priority : FormPriorities, status : StatusOptions] :
        \/ (f.title = "Fix bug" /\ f.assignedTo = "Alice"
            /\ f.tentativeTime = 3)
        \/ (f.status = ToDo
            /\ ((IF f.title = "Fix bug" THEN 0 ELSE 1)
                + (IF f.assignedTo = "Alice" THEN 0 ELSE 1)
                + (IF f.tentativeTime = 3 THEN 0 ELSE 1)) = 1)}

\* The constraints of the inputs without the min of the number input.
ConstraintValidWithoutMin(formData) ==
    /\ formData.title # ""
    /\ formData.assignedTo # ""
    /\ formData.tentativeTime # 0

\* Constraint validation of the form, which comes before its submit
\* event: title, assignedTo and tentativeTime are `required`, and
\* tentativeTime is a number input with min="1".
ConstraintValid(formData) ==
    /\ formData.title # ""
    /\ formData.assignedTo # ""
    /\ formData.tentativeTime # 0
    /\ formData.tentativeTime >= 1

\* TicketModal.handleSubmit: true when the form is passed on to onSave.
SubmitAccepts(formData) ==
    ~ (Trim(formData.title) = "" \/ Trim(formData.assignedTo) = ""
       \/ formData.tentativeTime = 0)

\* The guard at the head of handleSaveTicket.
SaveAccepts(ticketData) ==
    ~ (ticketData.title = "" \/ ticketData.assignedTo = ""
       \/ ticketData.tentativeTime = 0)

\* { ...editingTicket, ...ticketData, updatedAt: now }
\* An updated ticket that is stamped as created at the time of the update.
UpdatedTicketRecreated(ticket, ticketData, t) ==
    [id |-> ticket.id, title |-> ticketData.title,
     description |-> ticketData.description,
     assignedTo |-> ticketData.assignedTo,
     tentativeTime |-> ticketData.tentativeTime,
     priority |-> ticketData.priority,
     status |-> ticketData.status,
     createdAt |-> t, updatedAt |-> t]

\* { ...editingTicket, ...ticketData, updatedAt } of the edit branch of
\* handleSaveTicket.
UpdatedTicket(ticket, ticketData, t) ==
    [id |-> ticket.id, title |-> ticketData.title,
     description |-> ticketData.description,
     assignedTo |-> ticketData.assignedTo,
     tentativeTime |-> ticketData.tentativeTime,
     priority |-> ticketData.priority,
     status |-> ticketData.status,
     createdAt |-> ticket.createdAt, updatedAt |-> t]

\* The updater of the edit branch of handleSaveTicket.
SaveEdited(prev, ticket, ticketData, t) ==
    LET newColumns ==
            [prev EXCEPT ![ticket.status] = FilterOut(@, ticket.id)]
        targetStatus == ticketData.status
    IN SetKey(newColumns, targetStatus,
              Append(Get(newColumns, targetStatus),
                     UpdatedTicket(ticket, ticketData, t)))

\* The ticket built by the create branch of handleSaveTicket.
NewTicket(ticketData, cs, t) ==
    [id |-> IdOfClock(t), title |-> ticketData.title,
     description |-> ticketData.description,
     assignedTo |-> ticketData.assignedTo,
     tentativeTime |-> ticketData.tentativeTime,
     priority |-> ticketData.priority,
     status |-> IF cs # "" THEN cs
                ELSE IF ticketData.status # "" THEN ticketData.status
                ELSE ToDo,
     createdAt |-> t, updatedAt |-> t]

\* The updater of the create branch of handleSaveTicket.
SaveCreated(prev, newTicket) ==
    SetKey(prev, newTicket.status,
           Append(Get(prev, newTicket.status), newTicket))

\* A submit whose rejection closes the edit dialog.
handleSaveTicketClosing(modal, ticketData) ==
    IF \/ ~ ConstraintValid(ticketData)
       \/ ~ SubmitAccepts(ticketData)
       \/ ~ SaveAccepts(ticketData)
    THEN /\ last' = Event(modal, NoId, NoOver, "", "", "invalid")
         /\ editingTicket' = Null
         /\ isEditModalOpen' = FALSE
         /\ UNCHANGED <<columns, rendered, isCreateModalOpen,
                        isDetailModalOpen, selectedTicket, createStatus,
                        searchQuery, storage>>
    ELSE /\ IF editingTicket # Null
            THEN /\ columns' = SaveEdited(columns, editingTicket,
                                          ticketData, now)
                 /\ last' = Event(modal, editingTicket.id, NoOver,
                                  editingTicket.status, ticketData.status,
                                  "updated")
            ELSE /\ columns' = SaveCreated(columns,
                                   NewTicket(ticketData, createStatus, now))
                 /\ last' = Event(modal, IdOfClock(now), NoOver, "",
                                  NewTicket(ticketData, createStatus,
                                            now).status,
                                  "created")
         /\ editingTicket' = Null
         /\ isEditModalOpen' =
                IF editingTicket # Null \/ modal = "edit" THEN FALSE
                ELSE isEditModalOpen
         /\ isCreateModalOpen' =
                IF editingTicket = Null \/ modal = "create" THEN FALSE
                ELSE isCreateModalOpen
         /\ rendered' = Render(columns')
         /\ storage' = saveToLocalStorage(columns')
         /\ UNCHANGED <<isDetailModalOpen, selectedTicket, createStatus,
                        searchQuery>>

\* A submit of the form of a modal (modal is "create" or "edit"):
\* constraint validation, TicketModal.handleSubmit, handleSaveTicket(
\* ticketData), and the onClose of that modal.
handleSaveTicket(modal, ticketData) ==
    IF \/ ~ ConstraintValid(ticketData)
       \/ ~ SubmitAccepts(ticketData)
       \/ ~ SaveAccepts(ticketData)
    THEN /\ last' = Event(modal, NoId, NoOver, "", "", "invalid")
         /\ UNCHANGED <<columns, rendered, ui, storage>>
    ELSE /\ IF editingTicket # Null
            THEN /\ columns' = SaveEdited(columns, editingTicket,
                                          ticketData, now)
                 /\ last' = Event(modal, editingTicket.id, NoOver,
                                  editingTicket.status, ticketData.status,
                                  "updated")
            ELSE /\ columns' = SaveCreated(columns,
                                   NewTicket(ticketData, createStatus, now))
                 /\ last' = Event(modal, IdOfClock(now), NoOver, "",
                                  NewTicket(ticketData, createStatus,
                                            now).status,
                                  "created")
         /\ editingTicket' = Null
         /\ isEditModalOpen' =
                IF editingTicket # Null \/ modal = "edit" THEN FALSE
                ELSE isEditModalOpen
         /\ isCreateModalOpen' =
                IF editingTicket = Null \/ modal = "create" THEN FALSE
                ELSE isCreateModalOpen
         /\ rendered' = Render(columns')
         /\ storage' = saveToLocalStorage(columns')
         /\ UNCHANGED <<isDetailModalOpen, selectedTicket, createStatus,
                        searchQuery>>

\* Submit of the form of the create modal.
SubmitCreateModal ==
    /\ isCreateModalOpen
    /\ \E formData \in FormData : handleSaveTicket("create", formData)
    /\ UNCHANGED <<draggedTicket, dragEnabledId, now, activeId>>

\* Submit of the form of the edit modal.
SubmitEditModal ==
    /\ isEditModalOpen
    /\ \E formData \in FormData : handleSaveTicket("edit", formData)
    /\ UNCHANGED <<draggedTicket, dragEnabledId, now, activeId>>

\* The N shortcut.
onKeyDown ==
    /\ createStatus' = ToDo
    /\ UNCHANGED searchQuery
    /\ isCreateModalOpen' = TRUE
    /\ last' = Event("keyN", NoId, NoOver, "", "", "")
    /\ UNCHANGED <<columns, rendered, isEditModalOpen, editingTicket,
                   isDetailModalOpen, selectedTicket, draggedTicket,
                   dragEnabledId, storage, now, activeId>>

\* "+ Create" of the header (To Do) or "+ Create ticket" of a column.
handleCreateTicket ==
    \E status \in KeysOf(rendered) :
        /\ createStatus' = status
        /\ UNCHANGED searchQuery
        /\ isCreateModalOpen' = TRUE
        /\ dragEnabledId' = NoId
        /\ last' = Event("openCreate", NoId, NoOver, "", "", "")
        /\ UNCHANGED <<columns, rendered, isEditModalOpen, editingTicket,
                       isDetailModalOpen, selectedTicket, draggedTicket,
                       storage, now, activeId>>

\* The edit button of a ticket on the board.
handleEditTicket ==
    \E ticket \in BoardTickets(rendered) :
        /\ editingTicket' = ticket
        /\ isEditModalOpen' = TRUE
        /\ dragEnabledId' = NoId
        /\ last' = Event("openEdit", NoId, NoOver, "", "", "")
        /\ UNCHANGED <<columns, rendered, isCreateModalOpen, isDetailModalOpen,
                       selectedTicket, createStatus, searchQuery, draggedTicket,
                       storage,
                       now, activeId>>

\* A click on a ticket that is not drag-enabled.
handleTicketClick ==
    \E ticket \in BoardTickets(rendered) :
        /\ dragEnabledId # ticket.id
        /\ selectedTicket' = ticket
        /\ isDetailModalOpen' = TRUE
        /\ dragEnabledId' = NoId
        /\ last' = Event("openDetail", NoId, NoOver, "", "", "")
        /\ UNCHANGED <<columns, rendered, isCreateModalOpen, isEditModalOpen,
                       editingTicket, createStatus, searchQuery, draggedTicket,
                       storage,
                       now, activeId>>

closeCreateModal ==
    /\ isCreateModalOpen
    /\ isCreateModalOpen' = FALSE
    /\ last' = Event("closeCreate", NoId, NoOver, "", "", "")
    /\ UNCHANGED <<columns, rendered, isEditModalOpen, editingTicket,
                   isDetailModalOpen, selectedTicket, createStatus, searchQuery,
                   draggedTicket, dragEnabledId, storage, now, activeId>>

\* A close of the edit dialog that keeps the ticket under edit.
closeEditModalKeepingTicket ==
    /\ isEditModalOpen
    /\ isEditModalOpen' = FALSE
    /\ last' = Event("closeEdit", NoId, NoOver, "", "", "")
    /\ UNCHANGED <<columns, rendered, isCreateModalOpen, editingTicket,
                   isDetailModalOpen, selectedTicket, createStatus,
                   searchQuery, draggedTicket, dragEnabledId, storage, now,
                   activeId>>

closeEditModal ==
    /\ isEditModalOpen
    /\ isEditModalOpen' = FALSE
    /\ editingTicket' = Null
    /\ last' = Event("closeEdit", NoId, NoOver, "", "", "")
    /\ UNCHANGED <<columns, rendered, isCreateModalOpen, isDetailModalOpen,
                   selectedTicket, createStatus, searchQuery, draggedTicket,
                   dragEnabledId, storage, now, activeId>>

closeDetailModal ==
    /\ isDetailModalOpen
    /\ isDetailModalOpen' = FALSE
    /\ selectedTicket' = Null
    /\ last' = Event("closeDetail", NoId, NoOver, "", "", "")
    /\ UNCHANGED <<columns, rendered, isCreateModalOpen, isEditModalOpen,
                   editingTicket, createStatus, searchQuery, draggedTicket,
                   dragEnabledId, storage, now, activeId>>

\* A delete that empties the named column.
DeleteFromClearing(prev, id, status) == SetKey(prev, status, <<>>)

\* A delete by splice(findIndex(id), 1): index -1 takes the last ticket.
DeleteBySplice(prev, id, status) ==
    SetKey(prev, status,
           IF prev[status] = <<>> THEN <<>>
           ELSE IF FindIndex(prev[status], id) = 0
           THEN RemoveAt(prev[status], Len(prev[status]))
           ELSE RemoveAt(prev[status], FindIndex(prev[status], id)))

\* prev => ({ ...prev, [status]: prev[status].filter(t => t.id !== id) })
DeleteFrom(prev, id, status) ==
    SetKey(prev, status, FilterOut(prev[status], id))

\* handleDeleteTicket(id, status) for a status that is a key of the board.
handleDeleteTicket(id, status) ==
    /\ id # "" /\ status # ""
    /\ columns' = DeleteFrom(columns, id, status)
    /\ rendered' = Render(columns')
    /\ storage' = saveToLocalStorage(columns')
    /\ last' = Event("delete", id, NoOver, status, "", "deleted")
    /\ UNCHANGED <<ui, draggedTicket, dragEnabledId, now, activeId>>

\* The delete button of a ticket on the board: onDelete(ticket.id,
\* ticket.status).
handleDeleteClick ==
    \E ticket \in BoardTickets(rendered) :
        handleDeleteTicket(ticket.id, ticket.status)

\* A delete through a reference that the board has moved on from: the
\* ticket of the last delete once more, or an id that no column holds.
handleDeleteStale ==
    \E id \in {last.id, StrayId}, status \in KeysOf(columns) :
        /\ id = last.id => (last.op = "delete" /\ status = last.src)
        /\ handleDeleteTicket(id, status)

\* A clear that writes the stored blob and leaves the board state alone.
handleClearBoardStoreOnly ==
    /\ storage' = saveToLocalStorage(initialColumns)
    /\ last' = Event("clear", NoId, NoOver, "", "", "cleared")
    /\ UNCHANGED <<columns, rendered, ui, draggedTicket, dragEnabledId, now, activeId>>

handleClearBoard ==
    /\ columns' = initialColumns
    /\ rendered' = Render(columns')
    /\ storage' = saveToLocalStorage(initialColumns)
    /\ last' = Event("clear", NoId, NoOver, "", "", "cleared")
    /\ UNCHANGED <<ui, draggedTicket, dragEnabledId, now, activeId>>

\* An Add Test whose board is not written to the stored blob.
addTestTicketUnsaved ==
    /\ columns' = SetKey(columns, ToDo,
                         Append(Get(columns, ToDo),
                                [id |-> IdOfClock(now), title |-> "Test Ticket",
                                 description |-> "", assignedTo |-> "Test User",
                                 tentativeTime |-> 2, priority |-> "Medium",
                                 status |-> ToDo, createdAt |-> now,
                                 updatedAt |-> 0]))
    /\ rendered' = Render(columns')
    /\ last' = Event("addTest", IdOfClock(now), NoOver, "", ToDo, "created")
    /\ UNCHANGED <<ui, draggedTicket, dragEnabledId, storage, now, activeId>>

addTestTicket ==
    LET testTicket ==
            [id |-> IdOfClock(now), title |-> "Test Ticket",
             description |-> "This is a test ticket to verify functionality",
             assignedTo |-> "Test User", tentativeTime |-> 2,
             priority |-> "Medium", status |-> ToDo, createdAt |-> now,
             updatedAt |-> 0]
    IN /\ columns' = SetKey(columns, ToDo,
                            Append(Get(columns, ToDo), testTicket))
       /\ rendered' = Render(columns')
       /\ storage' = saveToLocalStorage(columns')
       /\ last' = Event("addTest", testTicket.id, NoOver, "", ToDo, "created")
       /\ UNCHANGED <<ui, draggedTicket, dragEnabledId, now, activeId>>

\* ------------------------------------------------------------- drag
\* A double click on a ticket: onEnableDrag(ticket.id).
handleDoubleClick ==
    \E ticket \in BoardTickets(rendered) :
        /\ dragEnabledId' = ticket.id
        /\ last' = Event("enableDrag", NoId, NoOver, "", "", "")
        /\ UNCHANGED <<columns, rendered, ui, draggedTicket, storage, now, activeId>>

\* A find that falls back to the first ticket of the board.
FindTicketOrFirst(cols, id) ==
    IF FindIndex(AllTickets(cols), id) = 0
    THEN IF AllTickets(cols) = <<>> THEN Null ELSE AllTickets(cols)[1]
    ELSE AllTickets(cols)[FindIndex(AllTickets(cols), id)]

\* Object.values(columns).flat().find(t => t.id === id); Null for undefined.
FindTicket(cols, id) ==
    IF FindIndex(AllTickets(cols), id) = 0 THEN Null
    ELSE AllTickets(cols)[FindIndex(AllTickets(cols), id)]

\* The ids onDragStart is called with: a ticket of the board, or an id that
\* no column holds.
DragStartIds(cols) == BoardIds(cols) \cup {StrayId}

\* onDragStart of the DndContext: of the tickets, only the sortable of the
\* drag-enabled one is not disabled.
handleDragStart ==
    \E id \in DragStartIds(rendered) :
        /\ activeId = NoId
        /\ id \in BoardIds(rendered) => dragEnabledId = id
        /\ activeId' = id
        /\ draggedTicket' = FindTicket(rendered, id)
        /\ last' = Event("dragStart", NoId, NoOver, "", "", "")
        /\ UNCHANGED <<columns, rendered, ui, dragEnabledId, storage, now>>

\* What a drag can be over: nothing, a column (useDroppable of Column), a
\* ticket (useSortable of Ticket), or some other droppable.
OverTargets(cols) == {NoOver, StrayId} \cup Cols \cup BoardIds(cols)

\* An onDragOver that moves the dragged ticket into the hovered column.
handleDragOverMoving ==
    \E over \in Cols :
    \E sourceStatus \in ContainerIds(columns, activeId) :
        /\ activeId # NoId
        /\ sourceStatus # over
        /\ columns' = [columns EXCEPT
                ![sourceStatus] = FilterOut(@, activeId),
                ![over] = Append(@, columns[sourceStatus][
                            FindIndex(columns[sourceStatus], activeId)])]
        /\ rendered' = Render(columns')
        /\ storage' = saveToLocalStorage(columns')
        /\ last' = Event("dragOver", activeId, over, "", "", "")
        /\ UNCHANGED <<ui, draggedTicket, dragEnabledId, now, activeId>>

\* onDragOver of the DndContext: it styles the hovered column element and
\* writes no state.
handleDragOver ==
    \E over \in OverTargets(rendered) :
        /\ activeId # NoId
        /\ last' = Event("dragOver", activeId, over, "", "", "")
        /\ UNCHANGED <<columns, rendered, ui, draggedTicket, dragEnabledId, storage,
                       now, activeId>>

\* data.current.sortable.containerId of the sortable with this id: one of
\* the columns that render it, "" (undefined) when none does.
SortableContainerIds(cols, id) ==
    IF ContainerIds(cols, id) = {} THEN {""} ELSE ContainerIds(cols, id)

\* A destination that falls back to the first column instead of null.
DestinationStatusDefaulting(cols, overId, overContainer) ==
    IF overContainer # "" THEN overContainer
    ELSE IF overId \in DOMAIN cols THEN overId ELSE "To Do"

\* over.data.current.sortable.containerId ||
\*     (Object.keys(columns).includes(overId) ? overId : null)
DestinationStatus(cols, overId, overContainer) ==
    IF overContainer # "" THEN overContainer
    ELSE IF overId \in KeysOf(cols) THEN overId ELSE ""

\* The same-column branch of handleDragEnd: the new value of the column.
Reordered(sourceItems, id, overId) ==
    LET oldIndex == FindIndex(sourceItems, id)
        newIndexRaw == FindIndex(sourceItems, overId)
        newIndex == IF newIndexRaw = 0 THEN Len(sourceItems) ELSE newIndexRaw
    IN arrayMove(sourceItems, oldIndex, newIndex)

\* A cross-column move that empties the column that is neither source nor
\* destination.
TransferredEmptyingThird(cols, id, sourceStatus, destinationStatus) ==
    LET sourceItems == cols[sourceStatus]
        movingIndex == FindIndex(sourceItems, id)
    IN [k \in DOMAIN cols |->
          IF k = sourceStatus THEN RemoveAt(sourceItems, movingIndex)
          ELSE IF k = destinationStatus
          THEN Append(cols[k], [sourceItems[movingIndex]
                                   EXCEPT !.status = destinationStatus])
          ELSE <<>>]

\* A cross-column move that leaves the ticket in its source column too.
TransferredCopying(cols, id, sourceStatus, destinationStatus) ==
    LET sourceItems == cols[sourceStatus]
        movingIndex == FindIndex(sourceItems, id)
    IN [cols EXCEPT ![destinationStatus] =
                        Append(@, [sourceItems[movingIndex]
                                      EXCEPT !.status = destinationStatus])]

\* A cross-column move that appends the ticket as it was, status included.
TransferredKeepingStatus(cols, id, sourceStatus, destinationStatus) ==
    LET sourceItems == cols[sourceStatus]
        movingIndex == FindIndex(sourceItems, id)
    IN [cols EXCEPT ![sourceStatus] = RemoveAt(sourceItems, movingIndex),
                    ![destinationStatus] =
                        Append(@, sourceItems[movingIndex])]

\* A cross-column move that puts the ticket at the head of the destination.
TransferredToFront(cols, id, sourceStatus, destinationStatus) ==
    LET sourceItems == cols[sourceStatus]
        movingIndex == FindIndex(sourceItems, id)
    IN [cols EXCEPT ![sourceStatus] = RemoveAt(sourceItems, movingIndex),
                    ![destinationStatus] =
                        <<[sourceItems[movingIndex]
                              EXCEPT !.status = destinationStatus]>> \o @]

\* The cross-column branch of handleDragEnd: the new board.
Transferred(cols, id, sourceStatus, destinationStatus) ==
    LET sourceItems == Get(cols, sourceStatus)
        destItems == Get(cols, destinationStatus)
        movingIndex == FindIndex(sourceItems, id)
        moving == sourceItems[movingIndex]
        updatedMoving == [moving EXCEPT !.status = destinationStatus]
    IN SetKey(SetKey(cols, sourceStatus, RemoveAt(sourceItems, movingIndex)),
              destinationStatus, Append(destItems, updatedMoving))

\* A drag end that clears the dragged ticket only after `if (!over) return`.
DragEndSessionAfterReturn(over) ==
    IF over = NoOver THEN draggedTicket ELSE Null

\* setDraggedTicket(null) of handleDragEnd, which runs before the hover
\* target is looked at.
DragEndSession(over) == Null

\* onDragEnd of the DndContext: the handler reads the columns of the render
\* it was made in, and the sortables are those of that render.
handleDragEnd ==
    \E over \in OverTargets(rendered) :
    \E sourceStatus \in SortableContainerIds(rendered, activeId) :
    \E overContainer \in SortableContainerIds(rendered, over) :
        LET destinationStatus ==
                DestinationStatus(rendered, over, overContainer)
        IN
        /\ activeId # NoId
        /\ activeId' = NoId
        /\ draggedTicket' = DragEndSession(over)
        /\ dragEnabledId' = NoId
        /\ IF over = NoOver
           THEN /\ last' = Event("dragEnd", activeId, NoOver, "", "", "noOver")
                /\ UNCHANGED <<columns, rendered, storage>>
           ELSE IF sourceStatus = ""
           THEN /\ last' = Event("dragEnd", activeId, over, "", "", "noSource")
                /\ UNCHANGED <<columns, rendered, storage>>
           ELSE IF destinationStatus = ""
           THEN /\ last' = Event("dragEnd", activeId, over, "", "",
                                 "noDestination")
                /\ UNCHANGED <<columns, rendered, storage>>
           ELSE IF FindIndex(Get(rendered, sourceStatus), activeId) = 0
           THEN /\ last' = Event("dragEnd", activeId, over, "", "", "missing")
                /\ UNCHANGED <<columns, rendered, storage>>
           ELSE IF sourceStatus = destinationStatus
           THEN /\ columns' = SetKey(rendered, sourceStatus,
                                Reordered(Get(rendered, sourceStatus),
                                          activeId, over))
                /\ rendered' = Render(columns')
                /\ storage' = saveToLocalStorage(columns')
                /\ last' = Event("dragEnd", activeId, over, sourceStatus,
                                 destinationStatus, "reorder")
           ELSE /\ columns' = Transferred(rendered, activeId, sourceStatus,
                                          destinationStatus)
                /\ rendered' = Render(columns')
                /\ storage' = saveToLocalStorage(columns')
                /\ last' = Event("dragEnd", activeId, over, sourceStatus,
                                 destinationStatus, "transfer")
        /\ UNCHANGED <<ui, now>>

\* The sensor cancels the drag (Escape, resize, visibility change): the
\* DndContext is given no onDragCancel, so no handler of the App runs.
DragCancel ==
    /\ activeId # NoId
    /\ activeId' = NoId
    /\ last' = Event("dragCancel", NoId, NoOver, "", "", "")
    /\ UNCHANGED <<columns, rendered, ui, draggedTicket, dragEnabledId, storage, now>>

\* ------------------------------------------------- part_000 drag end
\* Object.keys(columns).find((status) =>
\*     columns[status].some((ticket) => ticket.id === id)); "" for undefined.
findStatus(cols, id) ==
    LET holds == {n \in 1..Len(ColOrder) :
                    FindIndex(Get(cols, ColOrder[n]), id) # 0}
    IN IF holds = {} THEN ""
       ELSE ColOrder[CHOOSE n \in holds : \A m \in holds : n <= m]

\* tickets.splice(index, 1), 1-based index.
spliceOut(items, index) ==
    SubSeq(items, 1, index - 1) \o SubSeq(items, index + 1, Len(items))

\* A splice that puts the ticket behind the element at the index.
spliceInBehind(items, index, ticket) ==
    LET p == IF index > Len(items) THEN Len(items) ELSE index
    IN SubSeq(items, 1, p) \o <<ticket>> \o SubSeq(items, p + 1, Len(items))

\* tickets.splice(index, 0, ticket), 1-based index.
spliceIn(items, index, ticket) ==
    LET p == IF index > Len(items) + 1 THEN Len(items) + 1 ELSE index
    IN SubSeq(items, 1, p - 1) \o <<ticket>> \o SubSeq(items, p, Len(items))

\* The destination of the handleDragEnd of part_000: the hovered id when
\* it is a key of the board, else the first column that holds a ticket
\* with that id; "" when the handler does not get to a destination (over
\* has no target, so the look at the DOM throws).
scanDestination(cols, overId) ==
    IF overId \in KeysOf(cols) THEN overId ELSE findStatus(cols, overId)

\* The board that the handleDragEnd of part_000 sets for a drag of
\* activeId that ends over overId: the board as it is when the handler
\* returns (or throws) before setColumns.
handleDragEndBySplice(cols, id, overId) ==
    LET sourceStatus == findStatus(cols, id)
        destinationStatus == scanDestination(cols, overId)
        sourceTickets == Get(cols, sourceStatus)
        oldIndex == FindIndex(sourceTickets, id)
        newIndex == FindIndex(sourceTickets, overId)
        ticket == sourceTickets[oldIndex]
    IN IF overId = NoOver THEN cols
       ELSE IF sourceStatus = "" THEN cols
       ELSE IF destinationStatus = "" THEN cols
       ELSE IF sourceStatus = destinationStatus
       THEN SetKey(cols, sourceStatus,
                   IF newIndex = 0
                   THEN Append(spliceOut(sourceTickets, oldIndex), ticket)
                   ELSE spliceIn(spliceOut(sourceTickets, oldIndex),
                                 newIndex, ticket))
       ELSE SetKey(SetKey(cols, sourceStatus,
                          spliceOut(sourceTickets, oldIndex)),
                   destinationStatus,
                   Append(Get(cols, destinationStatus),
                          [ticket EXCEPT !.status = destinationStatus]))

\* ------------------------------------------------------------- search
\* What is typed into the search bar of the header.
Queries == {"", " ", "Alice ", "1", "high", "e", "Verify"}

\* The characters of the strings of the model.
Chars(str) ==
    CASE str = "" -> <<>>
      [] str = " " -> <<" ">>
      [] str = "Fix bug" -> <<"F", "i", "x", " ", "b", "u", "g">>
      [] str = "Alice" -> <<"A", "l", "i", "c", "e">>
      [] str = "Test Ticket" ->
           <<"T", "e", "s", "t", " ", "T", "i", "c", "k", "e", "t">>
      [] str = "Test User" -> <<"T", "e", "s", "t", " ", "U", "s", "e", "r">>
      [] str = "This is a test ticket to verify functionality" ->
           <<"T", "h", "i", "s", " ", "i", "s", " ", "a", " ", "t", "e",
             "s", "t", " ", "t", "i", "c", "k", "e", "t", " ", "t", "o",
             " ", "v", "e", "r", "i", "f", "y", " ", "f", "u", "n", "c",
             "t", "i", "o", "n", "a", "l", "i", "t", "y">>
      [] str = "1" -> <<"1">>
      [] str = "2" -> <<"2">>
      [] str = "3" -> <<"3">>
      [] str = "4" -> <<"4">>
      [] str = "Alice " -> <<"A", "l", "i", "c", "e", " ">>
      [] str = "high" -> <<"h", "i", "g", "h">>
      [] str = "e" -> <<"e">>
      [] str = "Verify" -> <<"V", "e", "r", "i", "f", "y">>
      [] str = "To Do" -> <<"T", "o", " ", "D", "o">>
      [] str = "In Progress" ->
           <<"I", "n", " ", "P", "r", "o", "g", "r", "e", "s", "s">>
      [] str = "Done" -> <<"D", "o", "n", "e">>
      [] str = "High" -> <<"H", "i", "g", "h">>
      [] str = "Medium" -> <<"M", "e", "d", "i", "u", "m">>

UpperCase == <<"A", "D", "F", "H", "I", "M", "P", "T", "U", "V">>
LowerCase == <<"a", "d", "f", "h", "i", "m", "p", "t", "u", "v">>

\* String.prototype.toLowerCase, on characters.
toLowerCase(chars) ==
    [i \in 1..Len(chars) |->
        IF \E n \in 1..Len(UpperCase) : UpperCase[n] = chars[i]
        THEN LowerCase[CHOOSE n \in 1..Len(UpperCase) :
                          UpperCase[n] = chars[i]]
        ELSE chars[i]]

\* String.prototype.trim, on characters.
trim(chars) ==
    LET ink == {i \in 1..Len(chars) : chars[i] # " "}
    IN IF ink = {} THEN <<>>
       ELSE SubSeq(chars, CHOOSE i \in ink : \A j \in ink : i <= j,
                   CHOOSE i \in ink : \A j \in ink : i >= j)

\* String.prototype.includes, on characters.
includes(chars, q) ==
    \E i \in 1..(Len(chars) - Len(q) + 1) :
        SubSeq(chars, i, i + Len(q) - 1) = q

\* A slice that keeps every element.
SliceAll(items, n) == items

\* Array.prototype.slice(0, n)
SliceTo(items, n) == SubSeq(items, 1, IF Len(items) < n THEN Len(items) ELSE n)

\* The filter of handleSearchChange, which looks at status and priority
\* too.
TicketMatchesAnyField(t, q) ==
    \/ includes(toLowerCase(Chars(t.title)), q)
    \/ includes(toLowerCase(Chars(t.assignedTo)), q)
    \/ includes(toLowerCase(Chars(t.status)), q)
    \/ includes(toLowerCase(Chars(t.priority)), q)
    \/ includes(Chars(t.id), q)

\* The filter of filteredTickets: title, description and assignedTo in
\* lower case, the id as it is.
TicketMatches(t, q) ==
    \/ includes(toLowerCase(Chars(t.title)), q)
    \/ includes(toLowerCase(Chars(t.description)), q)
    \/ includes(toLowerCase(Chars(t.assignedTo)), q)
    \/ includes(Chars(t.id), q)

\* A search that lists every ticket for an empty query.
filteredTicketsListingAll(cols, query) ==
    LET q == toLowerCase(trim(Chars(query)))
    IN SliceTo(SelectSeq(AllTickets(cols), LAMBDA t : TicketMatches(t, q)),
               10)

\* filteredTickets, the search result shown by the header.
filteredTickets(cols, query) ==
    LET q == toLowerCase(trim(Chars(query)))
    IN IF q = <<>> THEN <<>>
       ELSE SliceTo(SelectSeq(AllTickets(cols),
                              LAMBDA t : TicketMatches(t, q)), 10)

\* searchResults={filteredTickets} of the Header: the result list of the
\* render on screen.
shownResults == filteredTickets(rendered, searchQuery)

\* onSearchChange={setSearchQuery} of the search bar, and its clear button.
setSearchQuery ==
    \E query \in Queries :
        /\ searchQuery' = query
        /\ last' = Event("search", NoId, NoOver, "", "", "")
        /\ UNCHANGED <<columns, rendered, isCreateModalOpen, isEditModalOpen,
                       editingTicket, isDetailModalOpen, selectedTicket,
                       createStatus, draggedTicket, dragEnabledId, storage,
                       now, activeId>>

\* ------------------------------------------------------------- page load
\* App is on the page: its last load did not throw.
Mounted == last.outcome # "threw"

\* loadFromLocalStorage has no try/catch: JSON.parse throws on a blob that
\* is no JSON text.
LoadThrows(saved) == saved = CorruptBlob

\* A refresh of the page: App mounts with useState(loadFromLocalStorage())
\* and the initial value of every other state, and the save effect of the
\* first render writes the board.  When the load throws, the first render
\* of App throws: nothing is mounted and nothing is written.
Reload ==
    /\ columns' = IF storage = CorruptBlob THEN initialColumns
                  ELSE loadFromLocalStorage(storage)
    /\ rendered' = Render(columns')
    /\ storage' = IF LoadThrows(storage) THEN storage
                  ELSE saveToLocalStorage(columns')
    /\ last' = Event("load", NoId, NoOver, "", "",
                     IF LoadThrows(storage) THEN "threw" ELSE "loaded")
    /\ isCreateModalOpen' = FALSE
    /\ isEditModalOpen' = FALSE
    /\ editingTicket' = Null
    /\ isDetailModalOpen' = FALSE
    /\ selectedTicket' = Null
    /\ draggedTicket' = Null
    /\ dragEnabledId' = NoId
    /\ createStatus' = ToDo
    /\ searchQuery' = ""
    /\ activeId' = NoId
    /\ UNCHANGED now

\* The blob is removed outside the App (site data cleared).
RemoveStorage ==
    /\ storage' = NoBlob
    /\ UNCHANGED <<columns, rendered, ui, draggedTicket, dragEnabledId, now, activeId,
                   last>>

\* The blob is overwritten outside the App with a text that is no JSON.
CorruptStorage ==
    /\ storage' = CorruptBlob
    /\ UNCHANGED <<columns, rendered, ui, draggedTicket, dragEnabledId, now, activeId,
                   last>>

\* useState(loadFromLocalStorage()) evaluates the load on every render: a
\* render of the mounted App over a blob that does not parse throws.
RenderThrows ==
    /\ Mounted
    /\ LoadThrows(storage)
    /\ last' = Event("render", NoId, NoOver, "", "", "threw")
    /\ UNCHANGED <<columns, rendered, ui, draggedTicket, dragEnabledId, storage, now,
                   activeId>>

\* ------------------------------------------------------------- specifications
\* The bound of a specification on the states its steps lead to.
Within(maxTickets, maxClock) ==
    /\ TotalTickets(columns') <= maxTickets
    /\ now' <= maxClock

\* Every handler of the App that reads or writes the board, the ticket
\* forms or the drag gesture.
Next ==
    \/ Tick /\ Within(MaxTickets, MaxClock)
    \/ addTestTicket /\ Within(MaxTickets, MaxClock)
    \/ onKeyDown
    \/ handleCreateTicket
    \/ handleEditTicket
    \/ SubmitCreateModal /\ Within(MaxTickets, MaxClock)
    \/ SubmitEditModal /\ Within(MaxTickets, MaxClock)
    \/ closeCreateModal
    \/ closeEditModal
    \/ handleDeleteClick
    \/ handleClearBoard
    \/ handleDoubleClick
    \/ handleDragStart
    \/ handleDragOver
    \/ handleDragEnd
    \/ DragCancel
    \/ Reload

Spec == Init /\ [][Next]_vars

\* The ticket store and its dialogs: no drag gesture.
StoreNext ==
    \/ Tick /\ Within(MaxStoreTickets, MaxStoreClock)
    \/ addTestTicket /\ Within(MaxStoreTickets, MaxStoreClock)
    \/ onKeyDown
    \/ handleCreateTicket
    \/ handleEditTicket
    \/ SubmitCreateModal /\ Within(MaxStoreTickets, MaxStoreClock)
    \/ SubmitEditModal /\ Within(MaxStoreTickets, MaxStoreClock)
    \/ closeCreateModal
    \/ closeEditModal
    \/ handleDeleteClick
    \/ handleClearBoard
    \/ Reload

StoreSpec == Init /\ [][StoreNext]_vars

\* The drag reconciler: drag gestures over the boards that Add Test, delete
\* and clear build, no dialog.
DragNext ==
    \/ Tick /\ Within(MaxDragTickets, MaxDragClock)
    \/ addTestTicket /\ Within(MaxDragTickets, MaxDragClock)
    \/ handleDeleteClick
    \/ handleClearBoard
    \/ handleDoubleClick
    \/ handleDragStart
    \/ handleDragOver
    \/ handleDragEnd
    \/ DragCancel

DragSpec == Init /\ [][DragNext]_vars

\* The edit dialog next to the drag reconciler: tickets are edited while
\* they are dragged, deleted and cleared.
EditNext ==
    \/ Tick /\ Within(MaxEditTickets, MaxEditClock)
    \/ addTestTicket /\ Within(MaxEditTickets, MaxEditClock)
    \/ handleEditTicket
    \/ SubmitEditModal /\ Within(MaxEditTickets, MaxEditClock)
    \/ closeEditModal
    \/ handleDeleteClick
    \/ handleClearBoard
    \/ handleDoubleClick
    \/ handleDragStart
    \/ handleDragEnd

EditSpec == Init /\ [][EditNext]_vars

\* Delete and clear over the boards that Add Test and drags build, with
\* deletes through references the board has moved on from.
DeleteNext ==
    \/ Tick /\ Within(MaxDeleteTickets, MaxDeleteClock)
    \/ addTestTicket /\ Within(MaxDeleteTickets, MaxDeleteClock)
    \/ handleDoubleClick
    \/ handleDragStart
    \/ handleDragEnd
    \/ handleDeleteClick
    \/ handleDeleteStale
    \/ handleClearBoard

DeleteSpec == Init /\ [][DeleteNext]_vars

\* The search bar over boards that Add Test fills To Do of, after creates
\* by the form into any column.
SearchNext ==
    \/ Tick /\ Within(MaxSearchTickets, MaxSearchClock)
    \/ addTestTicket /\ Within(MaxSearchTickets, MaxSearchClock)
    \/ handleCreateTicket
    \/ SubmitCreateModal /\ Within(MaxSearchCreated, MaxSearchClock)
    \/ setSearchQuery

SearchSpec == Init /\ [][SearchNext]_vars

\* The N shortcut and the create form next to the edit dialog and the
\* detail dialog of a ticket.
ShortcutNext ==
    \/ Tick /\ Within(MaxShortcutTickets, MaxShortcutClock)
    \/ addTestTicket /\ Within(MaxShortcutTickets, MaxShortcutClock)
    \/ onKeyDown
    \/ handleEditTicket
    \/ handleTicketClick
    \/ SubmitCreateModal /\ Within(MaxShortcutTickets, MaxShortcutClock)
    \/ closeCreateModal
    \/ closeEditModal
    \/ closeDetailModal

ShortcutSpec == Init /\ [][ShortcutNext]_vars

\* The double click that enables the drag of a ticket, the drag gesture,
\* and every way a dialog is opened.
ArmNext ==
    \/ Tick /\ Within(MaxArmTickets, MaxArmClock)
    \/ addTestTicket /\ Within(MaxArmTickets, MaxArmClock)
    \/ handleDoubleClick
    \/ handleDragStart
    \/ handleDragEnd
    \/ DragCancel
    \/ onKeyDown
    \/ handleCreateTicket
    \/ handleEditTicket
    \/ handleTicketClick
    \/ closeCreateModal
    \/ closeEditModal
    \/ closeDetailModal

ArmSpec == Init /\ [][ArmNext]_vars

\* The search bar while tickets are edited, deleted, cleared and dragged.
FreshNext ==
    \/ Tick /\ Within(MaxFreshTickets, MaxFreshClock)
    \/ addTestTicket /\ Within(MaxFreshTickets, MaxFreshClock)
    \/ setSearchQuery
    \/ handleEditTicket
    \/ SubmitEditModal /\ Within(MaxFreshTickets, MaxFreshClock)
    \/ handleDeleteClick
    \/ handleClearBoard
    \/ handleDoubleClick
    \/ handleDragStart
    \/ handleDragEnd

FreshSpec == Init /\ [][FreshNext]_vars

\* Page loads over the blob the App wrote, over no blob and over a blob
\* that is no JSON; the handlers run while App is mounted and renders.
LoadNext ==
    \/ Tick /\ Within(MaxLoadTickets, MaxLoadClock)
    \/ addTestTicket /\ Within(MaxLoadTickets, MaxLoadClock)
          /\ Mounted /\ ~ LoadThrows(storage)
    \/ handleDeleteClick /\ Mounted /\ ~ LoadThrows(storage)
    \/ handleClearBoard /\ Mounted /\ ~ LoadThrows(storage)
    \/ RenderThrows
    \/ RemoveStorage
    \/ CorruptStorage
    \/ Reload

LoadSpec == Init /\ [][LoadNext]_vars

\* ------------------------------------------------------------- claims
\* How often a ticket id occurs in a sequence of tickets.
Occurrences(items, id) ==
    Cardinality({i \in 1..Len(items) : items[i].id = id})

\* C1: in every reachable state every ticket's status field is the name of
\* the column whose sequence holds it.
C1_StatusIsColumn ==
    \A k \in DOMAIN columns :
        \A i \in 1..Len(columns[k]) : columns[k][i].status = k

\* C1 witness: a drag has just moved a ticket into another column, and an
\* edit has just moved one.
C1_Witness ==
    /\ last.op = "dragEnd"
    /\ last.outcome = "transfer"
    /\ last.dst = Done
    /\ Occurrences(columns[Done], last.id) = 1
    /\ Occurrences(columns[last.src], last.id) = 0

\* C2: a ticket id occurs at most once on the whole board.
C2_UniqueIds ==
    \A id \in BoardIds(columns) :
        Occurrences(AllTickets(columns), id) <= 1

\* C3: the column keys of the board are exactly To Do, In Progress, Done.
C3_FixedKeys == DOMAIN columns = {"To Do", "In Progress", "Done"}

\* C3 witness: an edit has just been saved with a status other than the
\* one the ticket had, so that two columns were rewritten.
C3_Witness ==
    /\ last.op = "edit"
    /\ last.outcome = "updated"
    /\ last.src # last.dst
    /\ Occurrences(columns[last.dst], last.id) = 1
\* A step of handleDragEnd.
DragEndStep ==
    /\ activeId # NoId
    /\ activeId' = NoId
    /\ last'.op = "dragEnd"

\* The ids of a sequence of tickets, in order.
IdsOf(items) == [i \in 1..Len(items) |-> items[i].id]

\* C4 on boards where T's id occurs once: the transfer does what C4 says.
C4_TransferOfUniqueTicket ==
    [][(DragEndStep /\ last'.outcome = "transfer" /\ last'.over \in Cols
        /\ Occurrences(AllTickets(columns), activeId) = 1)
       => /\ last'.dst = last'.over
          /\ Occurrences(columns'[last'.src], activeId) = 0
          /\ columns'[last'.dst][Len(columns'[last'.dst])].id = activeId
          /\ columns'[last'.dst][Len(columns'[last'.dst])].status
                = last'.dst]_vars

\* C4: after a drag of T from column S has ended on another column D, S
\* holds no ticket with T's id, and the last ticket of D is T with status D.
C4_TransferToColumn ==
    (last.op = "dragEnd" /\ last.outcome = "transfer" /\ last.over \in Cols)
    => /\ last.dst = last.over
       /\ Occurrences(columns[last.src], last.id) = 0
       /\ Len(columns[last.dst]) > 0
       /\ columns[last.dst][Len(columns[last.dst])].id = last.id
       /\ columns[last.dst][Len(columns[last.dst])].status = last.dst

\* C5: a drag of T that ends over a ticket U of another column D is
\* resolved to a column D that holds U, and D afterwards is what it was
\* with T appended, wherever U is in D.
C5_TransferOverTicketAppends ==
    [][(/\ DragEndStep
        /\ last'.over \notin Cols
        /\ ContainerIds(columns, activeId) # {}
        /\ ContainerIds(columns, last'.over) # {}
        /\ ContainerIds(columns, activeId)
              \cap ContainerIds(columns, last'.over) = {})
       => LET D == last'.dst
              n == Len(columns[D])
          IN /\ last'.outcome = "transfer"
             /\ D \in ContainerIds(columns, last'.over)
             /\ Len(columns'[D]) = n + 1
             /\ SubSeq(columns'[D], 1, n) = columns[D]
             /\ columns'[D][n + 1].id = activeId
             /\ columns'[D][n + 1].status = D]_vars

\* C5 witness: the hovered ticket is the first of three tickets of the
\* destination, the moved one the last.
C5_Witness ==
    /\ last.op = "dragEnd"
    /\ last.outcome = "transfer"
    /\ last.over \notin Cols
    /\ last.over # last.id
    /\ Len(columns[last.dst]) = 3
    /\ columns[last.dst][1].id = last.over
    /\ columns[last.dst][3].id = last.id

\* The sequence old with the element at index i moved to index j, every
\* element between the two shifted by one towards i.
MovedTo(old, i, j) ==
    [k \in 1..Len(old) |->
        IF k = j THEN old[i]
        ELSE IF i < j /\ i <= k /\ k < j THEN old[k + 1]
        ELSE IF j < i /\ j < k /\ k <= i THEN old[k - 1]
        ELSE old[k]]

\* C6: a same-column reorder of ticket A over sibling B gives the column
\* with A moved to the index B had; over the column itself, A moved to the
\* last index.
C6_ReorderMovesToIndex ==
    [][DragEndStep
       => /\ (\E S \in Cols :
                 /\ ContainerIds(columns, activeId) = {S}
                 /\ \/ ContainerIds(columns, last'.over) = {S}
                    \/ last'.over = S)
             => last'.outcome = "reorder"
          /\ last'.outcome = "reorder"
             => LET old == columns[last'.src]
                    new == columns'[last'.src]
                IN IF last'.over \in Cols
                   THEN \E i \in 1..Len(old) :
                           /\ old[i].id = activeId
                           /\ new = MovedTo(old, i, Len(old))
                   ELSE \E i \in 1..Len(old), j \in 1..Len(old) :
                           /\ old[i].id = activeId
                           /\ old[j].id = last'.over
                           /\ new = MovedTo(old, i, j)]_vars

\* C6 witness: To Do was [1, 2, 3], ticket 1 was dropped on ticket 3, and
\* To Do is [2, 3, 1].
C6_Witness ==
    /\ last.op = "dragEnd"
    /\ last.outcome = "reorder"
    /\ last.id = "1"
    /\ last.over = "3"
    /\ IdsOf(columns[ToDo]) = <<"2", "3", "1">>

\* C7: a same-column reorder of ticket A leaves the sequence of the other
\* tickets of the column, and the length of the column, as they were.
C7_ReorderStable ==
    [][(DragEndStep /\ last'.outcome = "reorder")
       => /\ FilterOut(columns'[last'.src], activeId)
                = FilterOut(columns[last'.src], activeId)
          /\ Len(columns'[last'.src]) = Len(columns[last'.src])]_vars

\* C7 witness: a ticket was moved from behind two others to the head of a
\* column of three distinct tickets.
C7_Witness ==
    /\ last.op = "dragEnd"
    /\ last.outcome = "reorder"
    /\ last.over \notin Cols
    /\ last.over # last.id
    /\ Len(columns[last.src]) = 3
    /\ Cardinality({columns[last.src][i].id : i \in 1..3}) = 3
    /\ columns[last.src][1].id = last.id
    /\ columns[last.src][3].id # last.over

C9_IdleAfterDragEnd ==
    last.op = "dragEnd" => (draggedTicket = Null /\ activeId = NoId)

\* C9 witness: a drag has ended over nothing (the early return of the
\* handler) and the session is idle.
C9_Witness ==
    /\ last.op = "dragEnd"
    /\ last.outcome = "noOver"
    /\ draggedTicket = Null
    /\ activeId = NoId
    /\ TotalTickets(columns) >= 1

C11_UnknownIdDragIsNoOp ==
    [][/\ (activeId = NoId /\ activeId' # NoId
           /\ activeId' \notin BoardIds(columns))
          => (draggedTicket' = Null /\ columns' = columns
              /\ storage' = storage)
       /\ (DragEndStep /\ activeId \notin BoardIds(columns))
          => (columns' = columns /\ storage' = storage
              /\ draggedTicket' = Null)]_vars

\* C11 witness: a drag of an id that no column holds has ended over a
\* column of a board with two tickets.
C11_Witness ==
    /\ last.op = "dragEnd"
    /\ last.id = StrayId
    /\ last.over \in Cols
    /\ last.outcome = "noSource"
    /\ TotalTickets(columns) >= 2

\* The dragged ticket is not in the column it was in when the drag began
\* (the status of the ticket that handleDragStart stored).
NotInRecordedSource ==
    /\ draggedTicket # Null
    /\ draggedTicket.id = activeId
    /\ FindIndex(Get(columns, draggedTicket.status), activeId) = 0

C12_DeletedMidDragNoChange ==
    [][(DragEndStep /\ NotInRecordedSource
        /\ activeId \notin BoardIds(columns))
       => (columns' = columns /\ storage' = storage)]_vars

\* C13: onDragOver leaves the board and the stored blob as they were,
\* whether the drag is over a column, over a ticket, over some other
\* droppable or over nothing.
C13_DragOverChangesNothing ==
    [][(activeId # NoId /\ last'.op = "dragOver")
       => (columns' = columns /\ storage' = storage)]_vars

\* C13 witness: a ticket of a board with two tickets is being dragged over
\* a column other than its own.
C13_Witness ==
    /\ last.op = "dragOver"
    /\ last.over \in Cols
    /\ last.id \in BoardIds(columns)
    /\ last.over \notin ContainerIds(columns, last.id)
    /\ TotalTickets(columns) >= 2

\* A form with an empty title, an empty assignedTo, or a tentativeTime
\* that is missing, zero or negative.
InvalidForm(f) ==
    \/ Trim(f.title) = ""
    \/ Trim(f.assignedTo) = ""
    \/ f.tentativeTime <= 0

\* C14: a submit of the create form with an empty title, an empty
\* assignedTo, or a tentativeTime that is missing, zero or negative is
\* rejected and leaves the board and the stored blob as they were.
C14_InvalidCreateNoChange ==
    [][\A f \in FormData :
          (/\ InvalidForm(f)
           /\ isCreateModalOpen
           /\ editingTicket = Null
           /\ handleSaveTicket("create", f))
          => (/\ columns' = columns
              /\ storage' = storage
              /\ last'.outcome = "invalid")]_vars

\* C14 witness: a create form was rejected on a board that holds a ticket,
\* and the create modal is still open.
C14_Witness ==
    /\ last.op = "create"
    /\ last.outcome = "invalid"
    /\ isCreateModalOpen
    /\ editingTicket = Null
    /\ TotalTickets(columns) = 1

\* This step appended to column C one ticket that carries the fields of
\* form f and status C, and changed nothing else of the board.
AppendedFrom(f, C) ==
    /\ C \in DOMAIN columns
    /\ Len(columns'[C]) = Len(columns[C]) + 1
    /\ LET t == columns'[C][Len(columns'[C])]
       IN /\ columns' = [columns EXCEPT ![C] = Append(@, t)]
          /\ t.status = C
          /\ t.title = f.title
          /\ t.description = f.description
          /\ t.assignedTo = f.assignedTo
          /\ t.tentativeTime = f.tentativeTime
          /\ t.priority = f.priority

\* C15: an accepted submit of the create form opened for column C leaves
\* the board as it was except that C has one more ticket, at its end, with
\* an id that no ticket of the board had, status C and the fields of the
\* form.
C15_CreateAppendsFresh ==
    [][\A f \in FormData :
          (/\ ~ InvalidForm(f)
           /\ isCreateModalOpen
           /\ handleSaveTicket("create", f))
          => /\ AppendedFrom(f, createStatus)
             /\ columns'[createStatus][Len(columns'[createStatus])].id
                   \notin BoardIds(columns)]_vars

\* C15 without the freshness of the id and with no edit pending: the
\* submit appends the new ticket to column C and changes nothing else.
C15_CreateAppends ==
    [][\A f \in FormData :
          (/\ ~ InvalidForm(f)
           /\ isCreateModalOpen
           /\ editingTicket = Null
           /\ handleSaveTicket("create", f))
          => AppendedFrom(f, createStatus)]_vars

\* This step left on the board one ticket with the id of the edited
\* ticket: the last ticket of the column named by the status of form f,
\* with the fields of f and the createdAt the ticket had; every other
\* ticket is where it was.
UpdatedFrom(f, id) ==
    LET D == f.status
        t == columns'[D][Len(columns'[D])]
        old == AllTickets(columns)[FindIndex(AllTickets(columns), id)]
    IN /\ DOMAIN columns' = DOMAIN columns
       /\ Occurrences(AllTickets(columns'), id) = 1
       /\ Len(columns'[D]) > 0
       /\ t.id = id
       /\ t.status = D
       /\ t.title = f.title
       /\ t.description = f.description
       /\ t.assignedTo = f.assignedTo
       /\ t.tentativeTime = f.tentativeTime
       /\ t.priority = f.priority
       /\ t.createdAt = old.createdAt
       /\ \A k \in DOMAIN columns :
              FilterOut(columns'[k], id) = FilterOut(columns[k], id)

\* C16: an accepted submit of the edit form of a ticket that is on the
\* board removes the ticket from the column that holds it and makes the
\* merged ticket the last of the column named by the submitted status,
\* also when the ticket is no longer in the column it was in when the
\* edit was opened, and also when the status is kept.
C16_UpdateMovesToTail ==
    [][\A f \in FormData :
          (/\ ~ InvalidForm(f)
           /\ isEditModalOpen
           /\ editingTicket # Null
           /\ Occurrences(AllTickets(columns), editingTicket.id) = 1
           /\ handleSaveTicket("edit", f))
          => UpdatedFrom(f, editingTicket.id)]_vars

\* C16 for a ticket that is still in the column it was in when the edit
\* was opened: the update does what C16 says.
C16_UpdateInOpenedColumn ==
    [][\A f \in FormData :
          (/\ ~ InvalidForm(f)
           /\ isEditModalOpen
           /\ editingTicket # Null
           /\ Occurrences(AllTickets(columns), editingTicket.id) = 1
           /\ ContainerIds(columns, editingTicket.id)
                 = {editingTicket.status}
           /\ handleSaveTicket("edit", f))
          => UpdatedFrom(f, editingTicket.id)]_vars

\* C17: an accepted submit of the edit form of a ticket that no column
\* holds any more (it was deleted, or the board was cleared, after the
\* edit was opened) leaves the board and the stored blob as they were.
C17_UpdateOfAbsentNoChange ==
    [][\A f \in FormData :
          (/\ ~ InvalidForm(f)
           /\ isEditModalOpen
           /\ editingTicket # Null
           /\ editingTicket.id \notin BoardIds(columns)
           /\ handleSaveTicket("edit", f))
          => (columns' = columns /\ storage' = storage)]_vars

\* new is old without the tickets with this id, the others in the order
\* they had.
IsRestOf(new, old, id) ==
    /\ Len(new) = Len(old) - Occurrences(old, id)
    /\ \A i \in 1..Len(old) :
          old[i].id # id
          => new[i - Cardinality({j \in 1..i : old[j].id = id})] = old[i]

\* C18: delete(id, status) takes the ticket with that id out of the named
\* column, keeps the other tickets of that column in their order and
\* leaves the other two columns as they were; when the named column holds
\* no ticket with that id the board is left as it was.
C18_DeleteFromNamedColumn ==
    [][\A id \in BoardIds(columns) \cup {StrayId}, status \in Cols :
          handleDeleteTicket(id, status)
          => /\ DOMAIN columns' = DOMAIN columns
             /\ IsRestOf(columns'[status], columns[status], id)
             /\ \A k \in Cols \ {status} : columns'[k] = columns[k]
             /\ Occurrences(columns[status], id) = 0
                   => columns' = columns]_vars

\* C18 witness: a ticket was deleted from a column that held another
\* ticket as well, while a second column held a ticket.
C18_Witness ==
    /\ last.op = "delete"
    /\ last.id # StrayId
    /\ Occurrences(columns[last.src], last.id) = 0
    /\ Len(columns[last.src]) = 1
    /\ \E k \in Cols \ {last.src} : Len(columns[k]) = 1

\* C19: a delete(id, status) that follows a delete(id, status) leaves the
\* board and the stored blob as the first one left them, and on every
\* board, for every id and column, deleting twice gives what deleting
\* once gives.
C19_DeleteIdempotent ==
    [][/\ \A id \in BoardIds(columns) \cup {StrayId}, status \in Cols :
             DeleteFrom(DeleteFrom(columns, id, status), id, status)
                = DeleteFrom(columns, id, status)
       /\ \A status \in Cols :
             (/\ last.op = "delete"
              /\ last.src = status
              /\ handleDeleteTicket(last.id, status))
             => (columns' = columns /\ storage' = storage)]_vars

\* C19 witness: a ticket was deleted from a board of three tickets, and
\* the two that are left have different ids.
C19_Witness ==
    /\ last.op = "delete"
    /\ last.id # StrayId
    /\ Occurrences(columns[last.src], last.id) = 0
    /\ TotalTickets(columns) = 2
    /\ Cardinality(BoardIds(columns)) = 2

\* C20: after a clear, whatever the state it was applied in, the board has
\* the three columns, each an empty sequence, and the stored blob holds
\* that empty board.
C20_ClearEmptiesBoard ==
    last.op = "clear"
    => /\ DOMAIN columns = {"To Do", "In Progress", "Done"}
       /\ \A k \in DOMAIN columns : columns[k] = <<>>
       /\ Len(storage) = 3
       /\ \A i \in 1..Len(storage) :
             storage[i].key = ColOrder[i] /\ storage[i].value = <<>>

\* C20 witness: the board was cleared while a ticket was being dragged
\* and an edit of a ticket was open.
C20_Witness ==
    /\ last.op = "clear"
    /\ TotalTickets(columns) = 0
    /\ editingTicket # Null
    /\ draggedTicket # Null
    /\ activeId # NoId

\* C21: in every state, after whatever mutations, the stored blob is a
\* blob that loads to the board of that state: a refresh restores the
\* board as it was.
C21_WriteThrough ==
    /\ storage # NoBlob
    /\ storage # CorruptBlob
    /\ loadFromLocalStorage(storage) = columns

\* C21 witness: the page was refreshed and the board holds the ticket a
\* drag had moved to Done.
C21_Witness ==
    /\ last.op = "load"
    /\ Len(columns[Done]) = 1
    /\ columns[Done][1].status = Done
    /\ loadFromLocalStorage(storage) = columns

C23_LoadFallsBack ==
    [][(Reload /\ (storage = NoBlob \/ storage = CorruptBlob))
       => /\ last'.outcome = "loaded"
          /\ DOMAIN columns' = {"To Do", "In Progress", "Done"}
          /\ \A k \in DOMAIN columns' : columns'[k] = <<>>]_vars

\* C23 for the absent blob alone: the load gives the empty board.
C23_AbsentLoadsEmpty ==
    [][(Reload /\ storage = NoBlob)
       => /\ last'.outcome = "loaded"
          /\ DOMAIN columns' = {"To Do", "In Progress", "Done"}
          /\ \A k \in DOMAIN columns' : columns'[k] = <<>>]_vars

\* C24: every handler works on the committed board: the board that the
\* handlers close over is the board of the state, and a step that changes
\* the board (other than a clear) leaves every ticket but the one it is
\* about in its column, in the order the tickets had before the step.
C24_NoLostUpdate ==
    [][/\ rendered = columns
       /\ (columns' # columns /\ last'.op # "clear")
          => \A k \in Cols :
                FilterOut(Get(columns', k), last'.id)
                   = FilterOut(Get(columns, k), last'.id)]_vars

\* C24 witness: a drag has moved a ticket to another column of a board
\* on which another ticket, saved by an edit before, is still as the edit
\* left it.
C24_Witness ==
    /\ last.op = "dragEnd"
    /\ last.outcome = "transfer"
    /\ rendered = columns
    /\ \E t \in BoardTickets(columns) :
          /\ t.id # last.id
          /\ t.title = "Fix bug"
          /\ t.updatedAt # 0

\* needle is a substring of hay, compared without regard to case.
IsSubstringNoCase(needle, hay) ==
    \E i \in 1..(Len(hay) - Len(needle) + 1) :
        \A j \in 1..Len(needle) :
            toLowerCase(<<hay[i + j - 1]>>) = toLowerCase(<<needle[j]>>)

\* The query, without the blanks around it, is a substring of the id, the
\* title, the description or the assignedTo of the ticket.
QueryMatches(t, query) ==
    LET needle == trim(Chars(query))
    IN \/ IsSubstringNoCase(needle, Chars(t.id))
       \/ IsSubstringNoCase(needle, Chars(t.title))
       \/ IsSubstringNoCase(needle, Chars(t.description))
       \/ IsSubstringNoCase(needle, Chars(t.assignedTo))

\* The tickets of the board in column order: To Do, In Progress, Done.
InColumnOrder == columns["To Do"] \o columns["In Progress"] \o columns["Done"]

C26_SearchCappedInOrder ==
    LET R == filteredTickets(columns, searchQuery)
        M == SelectSeq(InColumnOrder,
                       LAMBDA t : /\ trim(Chars(searchQuery)) # <<>>
                                  /\ QueryMatches(t, searchQuery))
    IN /\ Len(R) <= 10
       /\ Len(R) = IF Len(M) > 10 THEN 10 ELSE Len(M)
       /\ \A i \in 1..Len(R) : R[i] = M[i]

\* C26 witness: eleven tickets in two columns match the query and the
\* result is the first ten.
C26_Witness ==
    /\ searchQuery = "e"
    /\ TotalTickets(columns) = 11
    /\ \A t \in BoardTickets(columns) : QueryMatches(t, searchQuery)
    /\ Len(columns["To Do"]) = 10
    /\ Len(columns["Done"]) = 1
    /\ Len(filteredTickets(columns, searchQuery)) = 10

\* C27: an empty query, or one of blanks only, gives an empty search
\* result on every board.
C27_BlankQueryFindsNothing ==
    trim(Chars(searchQuery)) = <<>>
    => filteredTickets(columns, searchQuery) = <<>>

\* C27 witness: the query is one blank on a board whose tickets have a
\* blank in their titles.
C27_Witness ==
    /\ searchQuery = " "
    /\ TotalTickets(columns) >= 2
    /\ \A t \in BoardTickets(columns) : includes(Chars(t.title), <<" ">>)
    /\ filteredTickets(columns, searchQuery) = <<>>

\* The tickets a step can carry over: those of the board, and the ticket
\* the edit dialog was opened for.
KnownTickets ==
    BoardTickets(columns)
        \cup (IF editingTicket = Null THEN {} ELSE {editingTicket})

\* C28: every ticket that is on the board after a step has the id and the
\* createdAt of a ticket that was there before the step (or of the ticket
\* under edit), unless the step has just created it; so no edit, reorder
\* or cross-column drag changes the id or the createdAt of a ticket.
C28_IdAndCreatedAtKept ==
    [][\A new \in BoardTickets(columns') :
          \/ \E old \in KnownTickets :
                 /\ new.id = old.id
                 /\ new.createdAt = old.createdAt
          \/ /\ new.id = IdOfClock(now)
             /\ new.createdAt = now
             /\ TotalTickets(columns') = TotalTickets(columns) + 1]_vars

\* C28 witness: a ticket created at time 1 was edited at a later time and
\* then dragged into another column, where it is now.
C28_Witness ==
    /\ last.op = "dragEnd"
    /\ last.outcome = "transfer"
    /\ \E t \in BoardTickets(columns) :
          /\ t.id = last.id
          /\ t.status = last.dst
          /\ t.createdAt = 1
          /\ t.updatedAt > t.createdAt
          /\ t.title = "Fix bug"

\* C29: a ticket that a step leaves on the board changed (no ticket of the
\* board before the step is equal to it, and one had its id) has the time
\* of the step as its updatedAt; in particular after an update and after
\* a cross-column drag.
C29_ChangeStampsUpdatedAt ==
    [][\A new \in BoardTickets(columns') :
          (/\ new \notin BoardTickets(columns)
           /\ \E old \in BoardTickets(columns) : old.id = new.id)
          => new.updatedAt = now]_vars

\* C29 for the edit form: the ticket an accepted submit of the edit form
\* leaves on the board has the time of the submit as its updatedAt.
C29_UpdateStampsUpdatedAt ==
    [][\A f \in FormData :
          (/\ isEditModalOpen
           /\ editingTicket # Null
           /\ handleSaveTicket("edit", f)
           /\ last'.outcome = "updated")
          => \E new \in BoardTickets(columns') :
                /\ new.id = editingTicket.id
                /\ new.updatedAt = now
                /\ \A other \in BoardTickets(columns') :
                      (other.id = new.id /\ other \notin BoardTickets(columns))
                      => other = new]_vars

\* C30: after N was pressed, an accepted submit of the create form leaves
\* the board as it was except that To Do has one more ticket, at its end,
\* with the fields of the form; also when the edit dialog or the detail
\* dialog of a ticket is open.
C30_ShortcutCreates ==
    [][\A f \in FormData :
          (/\ last.op = "keyN"
           /\ isCreateModalOpen
           /\ ~ InvalidForm(f)
           /\ handleSaveTicket("create", f))
          => /\ AppendedFrom(f, ToDo)
             /\ TotalTickets(columns') = TotalTickets(columns) + 1]_vars

\* C30 with no edit pending (the detail dialog of a ticket may be open):
\* the submit after N does what C30 says.
C30_ShortcutCreatesWithNoEdit ==
    [][\A f \in FormData :
          (/\ last.op = "keyN"
           /\ isCreateModalOpen
           /\ editingTicket = Null
           /\ ~ InvalidForm(f)
           /\ handleSaveTicket("create", f))
          => /\ AppendedFrom(f, ToDo)
             /\ TotalTickets(columns') = TotalTickets(columns) + 1]_vars

\* A ticket was created by the form after N while the detail dialog of
\* another ticket was open.
C30_CreatedOverDetail ==
    /\ last.op = "create"
    /\ isDetailModalOpen
    /\ selectedTicket # Null
    /\ TotalTickets(columns) = 2

\* The number of tickets of the board that are equal to t when the status
\* is left out of the comparison.
CountIgnoringStatus(cols, t) ==
    Cardinality({i \in 1..Len(AllTickets(cols)) :
                    [AllTickets(cols)[i] EXCEPT !.status = ""]
                        = [t EXCEPT !.status = ""]})

\* The number of tickets of the board that are equal to t.
CountOf(cols, t) ==
    Cardinality({i \in 1..Len(AllTickets(cols)) : AllTickets(cols)[i] = t})

\* This step is a drag start, a drag over or a drag end.
DragEventStep == last'.op \in {"dragStart", "dragOver", "dragEnd"}

\* C31: a drag start, drag over or drag end leaves the set of ids of the
\* board and the number of tickets as they were, changes no field but the
\* status of a ticket, and changes no ticket but the dragged one.
C31_DragConservesTickets ==
    [][DragEventStep
       => /\ BoardIds(columns') = BoardIds(columns)
          /\ TotalTickets(columns') = TotalTickets(columns)
          /\ \A t \in BoardTickets(columns) \cup BoardTickets(columns') :
                /\ CountIgnoringStatus(columns', t)
                      = CountIgnoringStatus(columns, t)
                /\ t.id # activeId
                      => CountOf(columns', t) = CountOf(columns, t)]_vars

\* C31 witness: a drag has just moved one of three tickets from To Do to
\* In Progress, and the two others are where they were.
C31_Witness ==
    /\ last.op = "dragEnd"
    /\ last.outcome = "transfer"
    /\ last.src = ToDo
    /\ last.dst = InProgress
    /\ TotalTickets(columns) = 3
    /\ Len(columns[ToDo]) = 2
    /\ Len(columns[InProgress]) = 1
    /\ columns[InProgress][1].id = last.id

\* The sequence old without its element at index i.
Without(old, i) ==
    [k \in 1..(Len(old) - 1) |-> IF k < i THEN old[k] ELSE old[k + 1]]

\* C32: a cross-column transfer of T from S to D leaves the third column
\* as it was, leaves S as it was with one ticket of T's id taken out, and
\* leaves the tickets D had at their positions, ahead of T; a same-column
\* reorder leaves the two other columns as they were.
C32_DragFrame ==
    [][DragEndStep
       => /\ last'.outcome = "transfer"
             => LET S == last'.src
                    D == last'.dst
                IN /\ S # D
                   /\ \A k \in DOMAIN columns \ {S, D} :
                         columns'[k] = columns[k]
                   /\ \E i \in 1..Len(columns[S]) :
                         /\ columns[S][i].id = activeId
                         /\ columns'[S] = Without(columns[S], i)
                   /\ Len(columns'[D]) = Len(columns[D]) + 1
                   /\ SubSeq(columns'[D], 1, Len(columns[D])) = columns[D]
                   /\ columns'[D][Len(columns'[D])].id = activeId
          /\ last'.outcome = "reorder"
             => \A k \in DOMAIN columns \ {last'.src} :
                   columns'[k] = columns[k]]_vars

\* C32 witness: a ticket was moved from To Do to Done, behind the ticket
\* Done had, while In Progress holds a ticket.
C32_Witness ==
    /\ last.op = "dragEnd"
    /\ last.outcome = "transfer"
    /\ last.src = ToDo
    /\ last.dst = Done
    /\ Len(columns[InProgress]) = 1
    /\ Len(columns[Done]) = 2
    /\ columns[Done][2].id = last.id
    /\ columns[Done][1].id # last.id

\* A form with an empty title, an empty assignedTo, or a tentativeTime
\* that is zero or missing.
EmptyField(f) ==
    \/ f.title = ""
    \/ f.assignedTo = ""
    \/ f.tentativeTime = 0

\* C33: a submit of the edit form with an empty title, an empty
\* assignedTo, or a tentativeTime that is zero or missing leaves the board
\* and the stored blob as they were, the edit dialog open and the ticket
\* under edit in place.
C33_InvalidUpdateNoChange ==
    [][\A f \in FormData :
          (/\ EmptyField(f)
           /\ isEditModalOpen
           /\ editingTicket # Null
           /\ handleSaveTicket("edit", f))
          => (/\ columns' = columns
              /\ storage' = storage
              /\ isEditModalOpen'
              /\ editingTicket' = editingTicket)]_vars

\* C33 witness: an edit form was rejected, the edit dialog is open on the
\* ticket, and the ticket is on the board as it was.
C33_Witness ==
    /\ last.op = "edit"
    /\ last.outcome = "invalid"
    /\ isEditModalOpen
    /\ editingTicket # Null
    /\ editingTicket \in BoardTickets(columns)

\* A drag of a ticket of the board starts only when that ticket is the
\* drag-enabled one.
ArmedDragOnly ==
    (activeId = NoId /\ activeId' # NoId /\ activeId' \in BoardIds(columns))
    => dragEnabledId = activeId'

\* A click on the drag-enabled ticket does not open its detail dialog.
ArmedClickOpensNothing ==
    last'.op = "openDetail" => selectedTicket'.id # dragEnabledId

\* C34: a ticket of the board is dragged only while it is the drag-enabled
\* one; every drag end and every opening of the create, edit or detail
\* dialog leaves no ticket drag-enabled; when a drag is over no ticket is
\* drag-enabled, so that the next drag needs a double click; and a click
\* on the drag-enabled ticket does not open its detail dialog.
C34_ArmingProtocol ==
    [][/\ ArmedDragOnly
       /\ last'.op = "dragEnd" => dragEnabledId' = NoId
       /\ (~ isCreateModalOpen /\ isCreateModalOpen') => dragEnabledId' = NoId
       /\ (~ isEditModalOpen /\ isEditModalOpen') => dragEnabledId' = NoId
       /\ (~ isDetailModalOpen /\ isDetailModalOpen')
             => dragEnabledId' = NoId
       /\ (activeId # NoId /\ activeId' = NoId) => dragEnabledId' = NoId
       /\ ArmedClickOpensNothing]_vars

\* C34 for the handlers the pointer reaches: a drag starts only on the
\* drag-enabled ticket, a click on it opens nothing, and onDragEnd,
\* handleCreateTicket, handleEditTicket and handleTicketClick leave no
\* ticket drag-enabled.
C34_PointerHandlersDisarm ==
    [][/\ ArmedDragOnly
       /\ ArmedClickOpensNothing
       /\ last'.op \in {"dragEnd", "openCreate", "openEdit", "openDetail"}
             => dragEnabledId' = NoId]_vars

\* A ticket is drag-enabled while the create dialog, opened by N, is open.
C34_ArmedUnderShortcut ==
    /\ last.op = "keyN"
    /\ isCreateModalOpen
    /\ dragEnabledId \in BoardIds(columns)

\* A ticket is drag-enabled after its drag was cancelled.
C34_ArmedAfterCancel ==
    /\ last.op = "dragCancel"
    /\ activeId = NoId
    /\ dragEnabledId \in BoardIds(columns)

\* C35: in every reachable state a ticket is held for editing if and only
\* if the edit dialog is open.
C35_EditingIffEditOpen ==
    (editingTicket # Null) <=> isEditModalOpen

\* C35 witness: the create form, submitted while an edit was pending, has
\* saved the ticket under edit; no ticket is held for editing and the edit
\* dialog is closed.
C35_Witness ==
    /\ last.op = "create"
    /\ last.outcome = "updated"
    /\ editingTicket = Null
    /\ ~ isEditModalOpen
    /\ TotalTickets(columns) = 1

\* C36: every ticket of the search result on screen is a ticket of the
\* board, with the status and the fields it has on the board, and is in
\* the result for the board of this state.
C36_SearchIsFresh ==
    /\ \A i \in 1..Len(shownResults) :
          /\ shownResults[i] \in BoardTickets(columns)
          /\ \E k \in DOMAIN columns :
                /\ shownResults[i].status = k
                /\ \E j \in 1..Len(columns[k]) :
                      columns[k][j] = shownResults[i]
    /\ shownResults = filteredTickets(columns, searchQuery)

\* C36 witness: the ticket of Add Test was edited into a ticket of Alice
\* and then dragged to Done; the query for Alice shows it with status
\* Done and its new title.
C36_Witness ==
    /\ searchQuery = "Alice "
    /\ last.op = "dragEnd"
    /\ last.outcome = "transfer"
    /\ Len(shownResults) = 1
    /\ shownResults[1].status = Done
    /\ shownResults[1].title = "Fix bug"
    /\ shownResults[1].updatedAt > shownResults[1].createdAt

\* The ticket that the query had found was deleted, and the result on
\* screen is empty.
C36_DeletedNotShown ==
    /\ searchQuery = "e"
    /\ last.op = "delete"
    /\ last.outcome = "deleted"
    /\ TotalTickets(columns) = 0
    /\ shownResults = <<>>

\* No two tickets of the board have the same id.
UniqueIds(cols) ==
    \A id \in BoardIds(cols) : Occurrences(AllTickets(cols), id) = 1

\* C37: on a board with no id twice, a drag end of a ticket of the board
\* over nothing, over a column or over a ticket of the board sets the
\* board that the handleDragEnd of part_000 sets for the same drag.
C37_ReconcilersAgree ==
    [][(/\ DragEndStep
        /\ UniqueIds(columns)
        /\ activeId \in BoardIds(columns)
        /\ last'.over \in {NoOver} \cup Cols \cup BoardIds(columns))
       => columns' = handleDragEndBySplice(columns, activeId, last'.over)]_vars

\* C37 on every board with no id twice, for every hover target, a
\* droppable that is neither column nor ticket included.
C37_ReconcilersAgreeOnAnyTarget ==
    [][(DragEndStep /\ UniqueIds(columns))
       => columns' = handleDragEndBySplice(columns, activeId, last'.over)]_vars

\* C37 witness: To Do was [1, 2, 3], ticket 3 was dropped on ticket 1, and
\* To Do is [3, 1, 2].
C37_Witness ==
    /\ last.op = "dragEnd"
    /\ last.outcome = "reorder"
    /\ last.id = "3"
    /\ last.over = "1"
    /\ IdsOf(columns[ToDo]) = <<"3", "1", "2">>
====
